---- MODULE Spec2Model ----
(***************************************************************************)
(* Model of the TMDB batch ingestion pipeline (tmdb_realtime_pg.py):       *)
(* fetch_movies_batch (page collector with retry), save_to_csv (flat-file  *)
(* mirror), save_batch_to_db (SQLAlchemy session: identity map, autoflush, *)
(* unit-of-work flush, commit) and main (the batch loop), plus the cron    *)
(* job of scheduler.py that calls main again.                              *)
(***************************************************************************)
EXTENDS Integers, Sequences, FiniteSets, TLC

\* ------------------------------------------------------------------ bounds
MaxRuns == 2          \* number of times the scheduler invokes main
MaxRequests == 5      \* GET requests the remote API answers in any way it can
MaxBatchLen == 2      \* longest batch handed directly to save_batch_to_db
MaxStart == 2         \* largest start_page handed directly to the collector
MaxSize == 3          \* largest pages_per_batch handed directly to the collector
MaxCeiling == 3       \* largest ceiling main is tuned to, besides MAX_PAGES
MaxBatchPages == 2    \* largest batch size main is tuned to, besides PAGES_PER_BATCH
MaxVaried == 3        \* requests answered in any way in a run followed to its end
ItemsPerPage == 20    \* items on each non-empty page of the exhaustion scenario

\* --------------------------------------------------------- program constants
RETRIES == 3          \* retries = 3
MAX_PAGES == 100      \* MAX_PAGES = 100
PAGES_PER_BATCH == 5  \* PAGES_PER_BATCH = 5

NULL == "NULL"        \* Python None / SQL NULL

\* -------------------------------------------------------------------- text
\* A text the API sends is kept as the sequence of its code points (a Python
\* str): it may hold any character.  Text(s) is the text of an ASCII string.
Char(s, i) == SubSeq(s, i, i)

\* The ASCII characters of the strings of this module by code point, in runs.
Ascii ==
  << [at |-> 32, chars |-> " "],
     [at |-> 45, chars |-> "-./0123456789:"],
     [at |-> 65, chars |-> "ABCDEFGHIJKLMNOPQRSTUVWXYZ"],
     [at |-> 97, chars |-> "abcdefghijklmnopqrstuvwxyz"] >>

ord(c) ==
  LET k == CHOOSE k \in 1..Len(Ascii) :
             \E i \in 1..Len(Ascii[k].chars) : Char(Ascii[k].chars, i) = c
      i == CHOOSE i \in 1..Len(Ascii[k].chars) : Char(Ascii[k].chars, i) = c
  IN  Ascii[k].at + i - 1

Text(s) == [i \in 1..Len(s) |-> ord(Char(s, i))]

\* ------------------------------------------------------------------- items
\* One element of the API's "results" array.
Item(i, t, d, g) ==
  [id |-> i, title |-> t, overview |-> "o", release_date |-> d,
   vote_average |-> 7, vote_count |-> 10, popularity |-> 5, genre_ids |-> g]

ItemA  == Item(1, "A", Text("2020-01-15"), <<1>>)
ItemA2 == Item(1, "B", Text(""), <<2>>)             \* id of ItemA, other fields
ItemB  == Item(2, "C", Text("2021-2-3"), <<2, 1>>)
ItemC  == Item(2, "D", Text("2020-13-45"), <<1, 1, 2>>) \* a repeated genre id
\* No genre; the date 2020-01-15 with the year and the last digit of the day
\* in Arabic-Indic digits (U+0660..U+0669).
ItemD  == Item(3, "E", <<1634, 1632, 1634, 1632>> \o Text("-01-1") \o <<1637>>, <<>>)

Items == {ItemA, ItemA2, ItemB, ItemC}

\* Non-empty "results" arrays the API may answer with.
PageBodies == { <<ItemA, ItemB>>, <<ItemA2>>, <<ItemC>> }

RECURSIVE SeqsUpTo(_, _)
SeqsUpTo(S, n) ==
  IF n = 0 THEN { <<>> }
  ELSE LET shorter == SeqsUpTo(S, n - 1)
       IN  shorter \cup { Append(s, x) : s \in { t \in shorter : Len(t) = n - 1 }, x \in S }

\* Batches in which an id comes back after another item was staged; ItemD
\* occurs in these only.
Revisits == { <<ItemA, ItemD, ItemA2>>, <<ItemA, ItemB, ItemA2>> }

\* Batches handed directly to save_batch_to_db / save_to_csv.
Batches == SeqsUpTo(Items, MaxBatchLen) \cup Revisits

\* ----------------------------------------------------------------- helpers
\* str(n) for the small integers of the model.
Digit(n) == CASE n = 0 -> "0" [] n = 1 -> "1" [] n = 2 -> "2" [] n = 3 -> "3"
              [] n = 4 -> "4" [] n = 5 -> "5" [] n = 6 -> "6" [] n = 7 -> "7"
              [] n = 8 -> "8" [] n = 9 -> "9"

RECURSIVE Str(_)
Str(n) == IF n < 10 THEN Digit(n) ELSE Str(n \div 10) \o Digit(n % 10)

IsLeap(y) == (y % 4 = 0 /\ y % 100 # 0) \/ y % 400 = 0

DaysInMonth(y, m) ==
  IF m = 2 THEN (IF IsLeap(y) THEN 29 ELSE 28)
  ELSE IF m \in {4, 6, 9, 11} THEN 30 ELSE 31

\* The code points of the digit zero of every script: the characters of
\* Unicode category Nd are these and the nine that follow each (Unicode 14.0,
\* the table of Python 3.11).
NdZeros ==
  {48, 1632, 1776, 1984, 2406, 2534, 2662, 2790, 2918, 3046, 3174, 3302,
   3430, 3558, 3664, 3792, 3872, 4160, 4240, 6112, 6160, 6470, 6608, 6784,
   6800, 6992, 7088, 7232, 7248, 42528, 43216, 43264, 43472, 43504, 43600,
   44016, 65296, 66720, 68912, 69734, 69872, 69942, 70096, 70384, 70736,
   70864, 71248, 71360, 71472, 71904, 72016, 72784, 73040, 73120, 92768,
   92864, 93008, 120782, 120792, 120802, 120812, 120822, 123200, 123632,
   125264, 130032}

\* The characters the regular expression class \d and int() take as decimal
\* digits, and the value of one.
Digits == UNION { z..(z + 9) : z \in NdZeros }

DigitVal(c) == c - (CHOOSE z \in NdZeros : c \in z..(z + 9))

\* The ASCII digits "1".."9", the class [1-9].
Digits19 == 49..57

\* The directive %m, 1[0-2]|0[1-9]|[1-9], at position i of text t, on ASCII
\* digits only: its value and the number of characters it takes, followed by
\* "-"; 0 characters when it does not match.
MonthField(t, i) ==
  LET n == Len(t)
      a == IF i <= n THEN t[i] ELSE 0
      b == IF i + 1 <= n THEN t[i + 1] ELSE 0
      c == IF i + 2 <= n THEN t[i + 2] ELSE 0
  IN  IF a = 49 /\ b \in 48..50 /\ c = 45 THEN [val |-> 10 + (b - 48), len |-> 2]
      ELSE IF a = 48 /\ b \in Digits19 /\ c = 45 THEN [val |-> b - 48, len |-> 2]
      ELSE IF a \in Digits19 /\ b = 45 THEN [val |-> a - 48, len |-> 1]
      ELSE [val |-> 0, len |-> 0]

\* The directive %d, 3[01]|[12]\d|0[1-9]|[1-9]| [1-9], on the text t that is
\* left for it: the first alternative that matches is taken and must use t
\* up.  Only the second character of [12]\d may be a digit of any script.
\* 0 when t does not match.
DayField(t) ==
  IF Len(t) = 1
    THEN (IF t[1] \in Digits19 THEN t[1] - 48 ELSE 0)
  ELSE IF Len(t) = 2
    THEN IF t[1] = 51 /\ t[2] \in {48, 49} THEN 30 + (t[2] - 48)
         ELSE IF t[1] \in {49, 50} /\ t[2] \in Digits THEN 10 * (t[1] - 48) + DigitVal(t[2])
         ELSE IF t[1] \in {48, 32} /\ t[2] \in Digits19 THEN t[2] - 48
         ELSE 0
  ELSE 0

Pad2(n) == IF n < 10 THEN "0" \o Str(n) ELSE Str(n)

Pad4(n) == IF n < 10 THEN "000" \o Str(n)
           ELSE IF n < 100 THEN "00" \o Str(n)
           ELSE IF n < 1000 THEN "0" \o Str(n)
           ELSE Str(n)

\* datetime.strptime(date_str, "%Y-%m-%d").date(), None on any exception (bad
\* format, impossible date).  date_str is the text as its code points.  %Y is
\* four digits of any script (\d\d\d\d), then "-", %m, "-", %d; the whole
\* string must be used up, and the date must exist (year >= 1, day within
\* the month).  The date is written in its ISO form.
parse_date_safe(date_str) ==
  LET n == Len(date_str)
  IN  IF n < 8 \/ n > 10 THEN NULL
      ELSE IF \E i \in 1..4 : date_str[i] \notin Digits THEN NULL
      ELSE IF date_str[5] # 45 THEN NULL
      ELSE LET y == 1000 * DigitVal(date_str[1]) + 100 * DigitVal(date_str[2])
                    + 10 * DigitVal(date_str[3]) + DigitVal(date_str[4])
               mf == MonthField(date_str, 6)
               m == mf.val
               d == DayField(SubSeq(date_str, 7 + mf.len, n))
           IN  IF mf.len = 0 \/ y < 1 \/ d < 1 \/ d > DaysInMonth(y, m) THEN NULL
               ELSE Pad4(y) \o "-" \o Pad2(m) \o "-" \o Pad2(d)

\* ",".join(map(str, genre_ids))
RECURSIVE JoinComma(_)
JoinComma(g) ==
  IF Len(g) = 0 THEN ""
  ELSE IF Len(g) = 1 THEN Str(g[1])
  ELSE Str(g[1]) \o "," \o JoinComma(Tail(g))

\* f"Genre {gid}"
GenreName(gid) == "Genre " \o Str(gid)

SeqToSet(s) == { s[i] : i \in 1..Len(s) }

NoRepeat(s) == \A i, j \in 1..Len(s) : s[i] = s[j] => i = j

\* ------------------------------------------------------------------- state
VARIABLES
  pc,               \* position of main: idle, loop, fetch, csv, db, done, crashed
  run,              \* number of invocations of main so far
  page,             \* main's cursor
  max_pages,        \* MAX_PAGES
  pages_per_batch,  \* PAGES_PER_BATCH
  batch,            \* main's batch
  halt,             \* how the loop of main was left: none, EXHAUSTED, CEILING_REACHED
  fpc,              \* fetch_movies_batch: idle, running, returned
  fstart, fsize,    \* its arguments
  fpage,            \* its loop variable page
  retries,          \* its retries
  movies,           \* its accumulator, and its return value
  flog,             \* the requests of this call, in order, with their outcome
  emptySeen,        \* a 200 response with empty results was received in this run
  csv_exists,       \* os.path.exists(filename)
  csv_lines,        \* the lines of the file
  movies_tbl,       \* committed rows of table movies
  genres_tbl,       \* committed rows of table genres
  assoc_tbl,        \* committed rows of table movies_genres
  sess,             \* per writer: the session of its save_batch_to_db call
  dbpc,             \* per writer: idle, opened, items, committed, closed, failed
  reqs,             \* number of GET requests issued so far
  sqlalchemy,       \* major version of the installed SQLAlchemy
  last              \* record of the previous completed save_batch_to_db call

driverVars == <<pc, run, page, max_pages, pages_per_batch, sqlalchemy, batch, halt>>
fetchVars  == <<fpc, fstart, fsize, fpage, retries, movies, flog, emptySeen>>
csvVars    == <<csv_exists, csv_lines>>
storeVars  == <<movies_tbl, genres_tbl, assoc_tbl>>
dbVars     == <<sess, dbpc, last>>
vars == <<pc, run, page, max_pages, pages_per_batch, sqlalchemy, batch, halt,
          fpc, fstart, fsize, fpage, retries, movies, flog, emptySeen,
          csv_exists, csv_lines, movies_tbl, genres_tbl, assoc_tbl,
          sess, dbpc, reqs, last>>

Writers == {"main", "other"}

\* The imports of lines 7-11 and session.get are those of SQLAlchemy 1.4 and
\* of 2.x, and the repository pins neither: the installed one is either.
Versions == {"1.4", "2"}

\* ================================================================ collector
\* fetch_movies_batch(start_page, pages_per_batch): movies = [], first page of
\* range(start_page, start_page + pages_per_batch), retries = 3.
FetchCall(start, size) ==
  /\ fpc' = "running"
  /\ fstart' = start
  /\ fsize' = size
  /\ fpage' = start
  /\ retries' = RETRIES
  /\ movies' = <<>>
  /\ flog' = <<>>

\* Leaving the while loop of one page: next page of the range, or return movies.
NextPage ==
  IF fpage + 1 < fstart + fsize
    THEN /\ fpage' = fpage + 1
         /\ retries' = RETRIES
         /\ fpc' = "running"
    ELSE /\ fpc' = "returned"
         /\ UNCHANGED <<fpage, retries>>

\* Mutant of FetchFail: one attempt too many (while retries >= 0).
FetchFail_extraAttempt ==
  /\ fpc = "running"
  /\ reqs < MaxRequests
  /\ reqs' = reqs + 1
  /\ flog' = Append(flog, [page |-> fpage, outcome |-> "fail", results |-> <<>>])
  /\ IF retries - 1 >= 0
       THEN /\ retries' = retries - 1
            /\ UNCHANGED <<fpc, fpage>>
       ELSE NextPage
  /\ UNCHANGED <<fstart, fsize, movies, emptySeen>>
  /\ UNCHANGED <<driverVars, csvVars, storeVars, dbVars>>

\* Mutant of FetchFail: exhausted retries end the whole batch.
FetchFail_abortsBatch ==
  /\ fpc = "running"
  /\ reqs < MaxRequests
  /\ reqs' = reqs + 1
  /\ flog' = Append(flog, [page |-> fpage, outcome |-> "fail", results |-> <<>>])
  /\ IF retries - 1 > 0
       THEN /\ retries' = retries - 1
            /\ UNCHANGED <<fpc, fpage>>
       ELSE /\ fpc' = "returned"
            /\ UNCHANGED <<fpage, retries>>
  /\ UNCHANGED <<fstart, fsize, movies, emptySeen>>
  /\ UNCHANGED <<driverVars, csvVars, storeVars, dbVars>>

\* One GET that ends in the except branch (non-200 status, timeout, network
\* error): retries -= 1; the while loop ends when retries reaches 0 (else
\* branch: page skipped).
GetFail ==
  /\ fpc = "running"
  /\ flog' = Append(flog, [page |-> fpage, outcome |-> "fail", results |-> <<>>])
  /\ IF retries - 1 > 0
       THEN /\ retries' = retries - 1
            /\ UNCHANGED <<fpc, fpage>>
       ELSE NextPage
  /\ UNCHANGED <<fstart, fsize, movies, emptySeen>>
  /\ UNCHANGED <<driverVars, csvVars, storeVars, dbVars>>

\* GetFail as one of the requests the remote API answers in a behaviour.
FetchFail ==
  /\ reqs < MaxRequests
  /\ reqs' = reqs + 1
  /\ GetFail

\* Once the API has given its MaxRequests answers it is down: every further
\* GET raises.
FetchOutage ==
  /\ reqs >= MaxRequests
  /\ GetFail
  /\ UNCHANGED reqs

\* Mutant of FetchEmpty: the empty page discards the batch (return []).
FetchEmpty_dropsBatch ==
  /\ fpc = "running"
  /\ reqs < MaxRequests
  /\ reqs' = reqs + 1
  /\ flog' = Append(flog, [page |-> fpage, outcome |-> "empty", results |-> <<>>])
  /\ fpc' = "returned"
  /\ emptySeen' = TRUE
  /\ movies' = <<>>
  /\ UNCHANGED <<fstart, fsize, fpage, retries>>
  /\ UNCHANGED <<driverVars, csvVars, storeVars, dbVars>>

\* One GET answered 200 with empty results: return movies.
GetEmpty ==
  /\ fpc = "running"
  /\ flog' = Append(flog, [page |-> fpage, outcome |-> "empty", results |-> <<>>])
  /\ fpc' = "returned"
  /\ emptySeen' = TRUE
  /\ UNCHANGED <<fstart, fsize, fpage, retries, movies>>
  /\ UNCHANGED <<driverVars, csvVars, storeVars, dbVars>>

\* GetEmpty as one of the requests the remote API answers in a behaviour.
FetchEmpty ==
  /\ reqs < MaxRequests
  /\ reqs' = reqs + 1
  /\ GetEmpty

\* One GET answered 200 with this non-empty results list:
\* movies.extend(results); break.
GetItems(results) ==
  /\ fpc = "running"
  /\ movies' = movies \o results
  /\ flog' = Append(flog, [page |-> fpage, outcome |-> "ok", results |-> results])
  /\ NextPage
  /\ UNCHANGED <<fstart, fsize, emptySeen>>
  /\ UNCHANGED <<driverVars, csvVars, storeVars, dbVars>>

\* GetItems as one of the requests the remote API answers in a behaviour.
FetchItems ==
  /\ reqs < MaxRequests
  /\ reqs' = reqs + 1
  /\ \E results \in PageBodies : GetItems(results)

\* =================================================================== mirror
CsvHeader == <<"id", "title", "overview", "release_date",
               "vote_average", "vote_count", "popularity", "genre_ids">>

CsvRow(m) == <<Str(m.id), m.title, m.overview, m.release_date,
               Str(m.vote_average), Str(m.vote_count), Str(m.popularity),
               JoinComma(m.genre_ids)>>

CsvRows(ms) == [i \in 1..Len(ms) |-> CsvRow(ms[i])]

\* Mutant of save_to_csv: the header is written on every call.
save_to_csv_headerAlways(ms) ==
  /\ csv_lines' = csv_lines \o <<CsvHeader>> \o CsvRows(ms)
  /\ csv_exists' = TRUE

\* Mutant of save_to_csv: the file is opened in write mode and rewritten.
save_to_csv_truncates(ms) ==
  /\ csv_lines' = <<CsvHeader>> \o CsvRows(ms)
  /\ csv_exists' = TRUE

\* Mutant of save_to_csv: the loop misses the first item (movies[1:]).
save_to_csv_dropsFirst(ms) ==
  /\ csv_lines' = csv_lines \o (IF csv_exists THEN <<>> ELSE <<CsvHeader>>) \o CsvRows(Tail(ms))
  /\ csv_exists' = TRUE

\* save_to_csv(movies): header only when the file did not exist, then one row
\* per item, appended.
save_to_csv(ms) ==
  /\ csv_lines' = csv_lines \o (IF csv_exists THEN <<>> ELSE <<CsvHeader>>) \o CsvRows(ms)
  /\ csv_exists' = TRUE

\* ==================================================================== store
\* Movie(id=m["id"], title=m.get("title"), ...): the row of a new Movie.
MovieRow(m) ==
  [id |-> m.id, title |-> m.title, overview |-> m.overview,
   release_date |-> parse_date_safe(m.release_date),
   vote_average |-> m.vote_average, vote_count |-> m.vote_count,
   popularity |-> m.popularity]

\* Genre(genre_id=gid, genre_name=f"Genre {gid}")
GenreRow(gid) == [genre_id |-> gid, genre_name |-> GenreName(gid)]

AssocRow(mid, gid) == [movie_id |-> mid, genre_id |-> gid]

Store == [movies |-> movies_tbl, genres |-> genres_tbl, assoc |-> assoc_tbl]

\* session = Session(): nothing loaded, nothing pending, no transaction yet.
NewSession(items) ==
  [open |-> TRUE, items |-> items, idx |-> 1,
   genre_cache |-> {},      \* dict genre_id -> Genre, as the set of its values
   new_genres |-> {},       \* pending Genre objects (session.add)
   new_movies |-> <<>>,     \* pending Movie objects with their genres list
   identity |-> {},         \* ids of the Movie objects in the identity map
   loose |-> {},            \* id of the Movie only the variable movie refers to
   tx_movies |-> {}, tx_genres |-> {}, tx_assoc |-> {},  \* rows flushed, not committed
   wrote |-> {},            \* history: movie ids flushed in this call
   staged |-> <<>>,         \* history: genre ids of the Genre objects created in this call
   before |-> Store,        \* history: the committed store when the call began
   prev |-> [repeats |-> last.items = items,   \* history: the call completed
             outcome |-> last.outcome]]        \* before this one

NoSession ==
  [open |-> FALSE, items |-> <<>>, idx |-> 1, genre_cache |-> {},
   new_genres |-> {}, new_movies |-> <<>>, identity |-> {}, loose |-> {},
   tx_movies |-> {}, tx_genres |-> {}, tx_assoc |-> {}, wrote |-> {}, staged |-> <<>>,
   before |-> [movies |-> {}, genres |-> {}, assoc |-> {}],
   prev |-> [repeats |-> FALSE, outcome |-> "none"]]

\* Rows a writer's transaction sees: committed rows and its own flushed rows.
VisMovies(s) == movies_tbl \cup s.tx_movies
VisGenres(s) == genres_tbl \cup s.tx_genres
VisAssoc(s)  == assoc_tbl \cup s.tx_assoc

\* The unit of work's INSERT parameter lists for the pending objects.  The
\* association rows come from each pending movie's genres list, one row per
\* list element.
RECURSIVE AssocOfMovie(_, _)
AssocOfMovie(mid, gids) ==
  IF Len(gids) = 0 THEN <<>>
  ELSE <<AssocRow(mid, Head(gids))>> \o AssocOfMovie(mid, Tail(gids))

\* The genre ids of the movies_genres rows a flush emits for a new Movie whose
\* genres list is gids.  An append to movie.genres is one row.  SQLAlchemy 2.x
\* also flushes the appends queued on genre.movies of a Genre loaded by the
\* query of lines 172-175, queued once per Movie however often the Genre was
\* appended, and emits the pair from that side: once.  A Genre created in
\* this call (created) holds the Movie once per append in its movies list,
\* and the pair is emitted once per append under both versions.
RECURSIVE EmittedGenres(_, _, _)
EmittedGenres(gids, created, seen) ==
  IF Len(gids) = 0 THEN <<>>
  ELSE LET gid == Head(gids)
           rest == EmittedGenres(Tail(gids), created, seen \cup {gid})
       IN  IF sqlalchemy = "2" /\ gid \notin created /\ gid \in seen
             THEN rest
             ELSE <<gid>> \o rest

RECURSIVE AssocInserts(_)
AssocInserts(nm) ==
  IF Len(nm) = 0 THEN <<>>
  ELSE AssocOfMovie(Head(nm).row.id, Head(nm).assoc) \o AssocInserts(Tail(nm))

MovieInserts(nm) == [i \in 1..Len(nm) |-> nm[i].row]

\* The database accepts the flush: no INSERT violates a primary key
\* (genres.genre_id, movies.id, movies_genres(movie_id, genre_id)).
FlushOk(s) ==
  /\ \A g \in s.new_genres : \A r \in VisGenres(s) : r.genre_id # g.genre_id
  /\ \A g, h \in s.new_genres : g.genre_id = h.genre_id => g = h
  /\ LET ids == [i \in 1..Len(s.new_movies) |-> s.new_movies[i].row.id]
     IN  /\ NoRepeat(ids)
         /\ \A r \in VisMovies(s) : r.id \notin SeqToSet(ids)
  /\ LET rows == AssocInserts(s.new_movies)
     IN  /\ NoRepeat(rows)
         /\ SeqToSet(rows) \cap VisAssoc(s) = {}

\* session.flush(): the pending objects become rows of the open transaction
\* and their Movie objects enter the identity map.
Flushed(s) ==
  [s EXCEPT !.tx_genres = @ \cup s.new_genres,
            !.tx_movies = @ \cup SeqToSet(MovieInserts(s.new_movies)),
            !.tx_assoc = @ \cup SeqToSet(AssocInserts(s.new_movies)),
            !.identity = @ \cup { s.new_movies[i].row.id : i \in 1..Len(s.new_movies) },
            !.wrote = @ \cup { s.new_movies[i].row.id : i \in 1..Len(s.new_movies) },
            !.new_genres = {},
            !.new_movies = <<>>]

\* The loop over m.get("genre_ids", []): a Genre is created and added to the
\* session only for an id missing from genre_cache; every id of the list is
\* appended to movie.genres.
RECURSIVE GenreLoop(_, _)
GenreLoop(s, gids) ==
  IF Len(gids) = 0 THEN s
  ELSE LET gid == Head(gids)
           cached == \E g \in s.genre_cache : g.genre_id = gid
           s1 == IF cached THEN s
                 ELSE [s EXCEPT !.genre_cache = @ \cup {GenreRow(gid)},
                                !.new_genres = @ \cup {GenreRow(gid)},
                                !.staged = Append(@, gid)]
       IN  GenreLoop(s1, Tail(gids))

\* movie.genres.append(genre) also reaches genre.movies (the backref).  A Genre
\* created in this call has its movies list in memory and the list holds the
\* Movie; a Genre loaded by the query of lines 172-175 has no movies list
\* loaded, the append is only queued on it and the queue is dropped by the
\* next flush.  Once flushed, a Movie is therefore kept alive by genre_cache
\* only if one of its genres was created in this call.
HeldByGenre(s, m) ==
  \E i \in 1..Len(m.genre_ids) : m.genre_ids[i] \in SeqToSet(s.staged)

\* Mutant of StageItem: the genre loop of each item starts from an empty
\* genre_cache (what the store and earlier items hold is not consulted).
StageItem_emptyCache(s, m) ==
  LET s1 == GenreLoop([s EXCEPT !.genre_cache = {}], m.genre_ids)
  IN  [s1 EXCEPT !.new_movies = Append(@, [row |-> MovieRow(m),
                                           assoc |-> EmittedGenres(m.genre_ids, SeqToSet(s1.staged), {})]),
                 !.identity = @ \ s.loose,
                 !.loose = IF HeldByGenre(s1, m) THEN {} ELSE {m.id}]

\* Lines 181-201 for an item whose id was not found: build the Movie, run the
\* genre loop, session.add(movie).  The variable movie now refers to the new
\* Movie: the Movie it referred to before stays in the (weak) identity map
\* only if a Genre of genre_cache holds it (HeldByGenre).
StageItem(s, m) ==
  LET s1 == GenreLoop(s, m.genre_ids)
  IN  [s1 EXCEPT !.new_movies = Append(@, [row |-> MovieRow(m),
                                           assoc |-> EmittedGenres(m.genre_ids, SeqToSet(s1.staged), {})]),
                 !.identity = @ \ s.loose,
                 !.loose = IF HeldByGenre(s1, m) THEN {} ELSE {m.id}]

\* -------------------------------------------------- save_batch_to_db, by step
\* Line 170, on entry of save_batch_to_db(items) by writer w.
DbOpen(w, items) ==
  /\ sess' = [sess EXCEPT ![w] = NewSession(items)]
  /\ dbpc' = [dbpc EXCEPT ![w] = "opened"]
  /\ UNCHANGED <<storeVars, last>>

\* Lines 172-175: genre_cache = {g.genre_id: g for g in session.query(Genre).all()}
DbLoadGenres(w) ==
  /\ dbpc[w] = "opened"
  /\ sess' = [sess EXCEPT ![w].genre_cache = VisGenres(sess[w])]
  /\ dbpc' = [dbpc EXCEPT ![w] = "items"]
  /\ UNCHANGED <<storeVars, last, reqs>>
  /\ UNCHANGED <<driverVars, fetchVars, csvVars>>

\* Mutant of DbRaise: the rows flushed before the failure stay in the store.
DbRaise_partialCommit(w, cause) ==
  /\ dbpc' = [dbpc EXCEPT ![w] = "failed"]
  /\ sess' = [sess EXCEPT ![w].tx_movies = {}, ![w].tx_genres = {}, ![w].tx_assoc = {}]
  /\ last' = [items |-> sess[w].items, outcome |-> cause]
  /\ pc' = IF w = "main" /\ pc = "db" THEN "crashed" ELSE pc
  /\ movies_tbl' = movies_tbl \cup sess[w].tx_movies
  /\ genres_tbl' = genres_tbl \cup sess[w].tx_genres
  /\ assoc_tbl' = assoc_tbl \cup sess[w].tx_assoc
  /\ UNCHANGED <<run, page, max_pages, pages_per_batch, sqlalchemy, batch, halt, reqs>>
  /\ UNCHANGED <<fetchVars, csvVars>>

\* Mutant of DbRaise: the exception is swallowed inside save_batch_to_db
\* (except: session.rollback(), then session.close() and return).
DbRaise_swallowed(w, cause) ==
  /\ dbpc' = [dbpc EXCEPT ![w] = "closed"]
  /\ sess' = [sess EXCEPT ![w].tx_movies = {}, ![w].tx_genres = {}, ![w].tx_assoc = {},
                          ![w].open = FALSE]
  /\ last' = [items |-> sess[w].items, outcome |-> cause]
  /\ UNCHANGED storeVars
  /\ UNCHANGED <<driverVars, reqs>>
  /\ UNCHANGED <<fetchVars, csvVars>>

\* An exception leaves save_batch_to_db (there is no try): the transaction is
\* rolled back, session.close() is not reached, and in main the exception
\* leaves the loop and main itself.
DbRaise(w, cause) ==
  /\ dbpc' = [dbpc EXCEPT ![w] = "failed"]
  /\ sess' = [sess EXCEPT ![w].tx_movies = {}, ![w].tx_genres = {}, ![w].tx_assoc = {}]
  /\ last' = [items |-> sess[w].items, outcome |-> cause]
  /\ pc' = IF w = "main" /\ pc = "db" THEN "crashed" ELSE pc
  /\ UNCHANGED storeVars
  /\ UNCHANGED <<run, page, max_pages, pages_per_batch, sqlalchemy, batch, halt, reqs>>
  /\ UNCHANGED <<fetchVars, csvVars>>

\* session.get(Movie, m["id"]) answers from the identity map when the object
\* is there; otherwise it autoflushes the pending objects and SELECTs.  The
\* identity map refers to its objects weakly: a Movie created in this call
\* stays in it once flushed (see StageItem), a Movie that get loaded from the
\* store is referred to by nothing after `if session.get(...): continue` and
\* has left the map before the next get.
IdentityHit(s) == s.items[s.idx].id \in s.identity

\* Mutant of DbItem: no lookup of the id, every item is staged.
DbItem_noLookup(w) ==
  /\ dbpc[w] = "items"
  /\ sess[w].idx <= Len(sess[w].items)
  /\ LET s == sess[w]
         m == s.items[s.idx]
         s1 == Flushed(s)
         s2 == [s1 EXCEPT !.idx = @ + 1]
     IN  /\ FlushOk(s)
         /\ sess' = [sess EXCEPT ![w] = StageItem(s2, m)]
  /\ UNCHANGED <<dbpc, storeVars, last, reqs>>
  /\ UNCHANGED <<driverVars, fetchVars, csvVars>>

\* Mutant of DbItem: an item whose id is found still runs the genre loop and
\* links the genres to the stored movie.
DbItem_updatesExisting(w) ==
  /\ dbpc[w] = "items"
  /\ sess[w].idx <= Len(sess[w].items)
  /\ LET s == sess[w]
         m == s.items[s.idx]
         s1 == IF IdentityHit(s) THEN s ELSE Flushed(s)
         found == IdentityHit(s) \/ \E r \in VisMovies(s1) : r.id = m.id
         s2 == [s1 EXCEPT !.idx = @ + 1]
         s3 == GenreLoop([s2 EXCEPT !.identity = @ \cup {m.id}], m.genre_ids)
     IN  /\ IdentityHit(s) \/ FlushOk(s)
         /\ sess' = [sess EXCEPT ![w] =
                       IF found
                         THEN [s3 EXCEPT !.tx_assoc = @ \cup
                                 (SeqToSet(AssocOfMovie(m.id, m.genre_ids)) \ assoc_tbl)]
                         ELSE StageItem(s2, m)]
  /\ UNCHANGED <<dbpc, storeVars, last, reqs>>
  /\ UNCHANGED <<driverVars, fetchVars, csvVars>>

\* Lines 177-201 for one item, when no flush error occurs.
DbItem(w) ==
  /\ dbpc[w] = "items"
  /\ sess[w].idx <= Len(sess[w].items)
  /\ LET s == sess[w]
         m == s.items[s.idx]
         s1 == IF IdentityHit(s) THEN s ELSE Flushed(s)
         found == IdentityHit(s) \/ \E r \in VisMovies(s1) : r.id = m.id
         s2 == [s1 EXCEPT !.idx = @ + 1]
     IN  /\ IdentityHit(s) \/ FlushOk(s)
         /\ sess' = [sess EXCEPT ![w] =
                       IF found THEN s2 ELSE StageItem(s2, m)]
  /\ UNCHANGED <<dbpc, storeVars, last, reqs>>
  /\ UNCHANGED <<driverVars, fetchVars, csvVars>>

\* The autoflush of session.get raises IntegrityError.
DbAutoflushError(w) ==
  /\ dbpc[w] = "items"
  /\ sess[w].idx <= Len(sess[w].items)
  /\ ~IdentityHit(sess[w])
  /\ ~FlushOk(sess[w])
  /\ DbRaise(w, "constraint")

\* Line 203, session.commit(): flush, then COMMIT makes the transaction's rows
\* the committed rows.
DbCommit(w) ==
  /\ dbpc[w] = "items"
  /\ sess[w].idx > Len(sess[w].items)
  /\ FlushOk(sess[w])
  /\ LET s == Flushed(sess[w])
     IN  /\ movies_tbl' = movies_tbl \cup s.tx_movies
         /\ genres_tbl' = genres_tbl \cup s.tx_genres
         /\ assoc_tbl' = assoc_tbl \cup s.tx_assoc
         /\ sess' = [sess EXCEPT ![w] = [s EXCEPT !.tx_movies = {}, !.tx_genres = {},
                                                  !.tx_assoc = {}]]
  /\ dbpc' = [dbpc EXCEPT ![w] = "committed"]
  /\ UNCHANGED <<last, reqs>>
  /\ UNCHANGED <<driverVars, fetchVars, csvVars>>

\* The flush of session.commit() raises IntegrityError.
DbCommitError(w) ==
  /\ dbpc[w] = "items"
  /\ sess[w].idx > Len(sess[w].items)
  /\ ~FlushOk(sess[w])
  /\ DbRaise(w, "constraint")

\* The store fails (unreachable, connection lost) at a statement of the call:
\* the genre query, a get, a flush or the commit.
DbStoreError(w) ==
  /\ dbpc[w] \in {"opened", "items"}
  /\ DbRaise(w, "store")

\* Lines 204-205: session.close(), print, return.
DbClose(w) ==
  /\ dbpc[w] = "committed"
  /\ sess' = [sess EXCEPT ![w].open = FALSE]
  /\ dbpc' = [dbpc EXCEPT ![w] = "closed"]
  /\ last' = [items |-> sess[w].items, outcome |-> "ok"]
  /\ UNCHANGED <<storeVars, reqs>>
  /\ UNCHANGED <<driverVars, fetchVars, csvVars>>

\* ===================================================================== main
\* main is entered (first by hand or by the cron job, then again by the cron
\* job once the previous instance has ended): page = 1.
MainStart ==
  /\ pc \in {"idle", "done", "crashed"}
  /\ run < MaxRuns
  /\ run' = run + 1
  /\ pc' = "loop"
  /\ page' = 1
  /\ batch' = <<>>
  /\ halt' = "none"
  /\ emptySeen' = FALSE
  /\ fpc' = "idle"
  /\ flog' = <<>>
  /\ dbpc' = [dbpc EXCEPT !["main"] = "idle"]
  /\ UNCHANGED <<max_pages, pages_per_batch, sqlalchemy, fstart, fsize, fpage, retries, movies>>
  /\ UNCHANGED <<csvVars, storeVars, sess, last, reqs>>

\* Lines 219-222: while page <= MAX_PAGES: batch = fetch_movies_batch(page, PAGES_PER_BATCH)
MainLoop ==
  /\ pc = "loop"
  /\ IF page <= max_pages
       THEN /\ FetchCall(page, pages_per_batch)
            /\ pc' = "fetch"
            /\ UNCHANGED halt
       ELSE /\ pc' = "done"
            /\ halt' = "CEILING_REACHED"
            /\ UNCHANGED <<fpc, fstart, fsize, fpage, retries, movies, flog>>
  /\ UNCHANGED <<run, page, max_pages, pages_per_batch, sqlalchemy, batch, emptySeen>>
  /\ UNCHANGED <<csvVars, storeVars, dbVars, reqs>>

\* Lines 222-225: the collector has returned; if not batch: break.
MainCheck ==
  /\ pc = "fetch"
  /\ fpc = "returned"
  /\ batch' = movies
  /\ fpc' = "idle"
  /\ IF movies = <<>>
       THEN pc' = "done" /\ halt' = "EXHAUSTED"
       ELSE pc' = "csv" /\ UNCHANGED halt
  /\ flog' = <<>>
  /\ UNCHANGED <<run, page, max_pages, pages_per_batch, sqlalchemy>>
  /\ UNCHANGED <<fstart, fsize, fpage, retries, movies, emptySeen>>
  /\ UNCHANGED <<csvVars, storeVars, dbVars, reqs>>

\* Line 227: save_to_csv(batch)
MainCsv ==
  /\ pc = "csv"
  /\ save_to_csv(batch)
  /\ pc' = "db"
  /\ UNCHANGED <<run, page, max_pages, pages_per_batch, sqlalchemy, batch, halt>>
  /\ UNCHANGED <<fetchVars, storeVars, dbVars, reqs>>

\* Line 228: save_batch_to_db(batch) is entered.
MainSaveDb ==
  /\ pc = "db"
  /\ dbpc["main"] = "idle"
  /\ DbOpen("main", batch)
  /\ UNCHANGED <<driverVars, fetchVars, csvVars, reqs>>

\* Mutant of MainAdvance: the cursor moves by one page, not by a batch.
MainAdvance_byOne ==
  /\ pc = "db"
  /\ dbpc["main"] = "closed"
  /\ page' = page + 1
  /\ dbpc' = [dbpc EXCEPT !["main"] = "idle"]
  /\ pc' = "loop"
  /\ sess' = [sess EXCEPT !["main"] = NoSession]
  /\ UNCHANGED <<run, max_pages, pages_per_batch, sqlalchemy, batch, halt>>
  /\ UNCHANGED <<fetchVars, csvVars, storeVars, last, reqs>>

\* Mutant of MainAdvance: the cursor is left where it was.
MainAdvance_noAdvance ==
  /\ pc = "db"
  /\ dbpc["main"] = "closed"
  /\ page' = page
  /\ dbpc' = [dbpc EXCEPT !["main"] = "idle"]
  /\ pc' = "loop"
  /\ sess' = [sess EXCEPT !["main"] = NoSession]
  /\ UNCHANGED <<run, max_pages, pages_per_batch, sqlalchemy, batch, halt>>
  /\ UNCHANGED <<fetchVars, csvVars, storeVars, last, reqs>>

\* Line 230: save_batch_to_db has returned; page += PAGES_PER_BATCH.
MainAdvance ==
  /\ pc = "db"
  /\ dbpc["main"] = "closed"
  /\ page' = page + pages_per_batch
  /\ dbpc' = [dbpc EXCEPT !["main"] = "idle"]
  /\ pc' = "loop"
  /\ sess' = [sess EXCEPT !["main"] = NoSession]
  /\ UNCHANGED <<run, max_pages, pages_per_batch, sqlalchemy, batch, halt>>
  /\ UNCHANGED <<fetchVars, csvVars, storeVars, last, reqs>>

\* ========================================================== specifications
InitCommon ==
  /\ pc = "idle" /\ run = 0 /\ page = 1 /\ batch = <<>> /\ halt = "none"
  /\ fpc = "idle" /\ fstart = 1 /\ fsize = 1 /\ fpage = 1 /\ retries = RETRIES
  /\ movies = <<>> /\ flog = <<>> /\ emptySeen = FALSE
  /\ csv_exists = FALSE /\ csv_lines = <<>>
  /\ movies_tbl = {} /\ genres_tbl = {} /\ assoc_tbl = {}
  /\ sess = [w \in Writers |-> NoSession]
  /\ dbpc = [w \in Writers |-> "idle"]
  /\ reqs = 0
  /\ sqlalchemy \in Versions
  /\ last = [items |-> <<>>, outcome |-> "none"]

\* The pipeline as deployed: main run by the scheduler, one instance at a time.
Init ==
  /\ InitCommon
  /\ max_pages = MAX_PAGES
  /\ pages_per_batch = PAGES_PER_BATCH

DbStep(w) ==
  \/ DbLoadGenres(w)
  \/ DbItem(w)
  \/ DbAutoflushError(w)
  \/ DbCommit(w)
  \/ DbCommitError(w)
  \/ DbStoreError(w)
  \/ DbClose(w)

Next ==
  \/ MainStart
  \/ MainLoop
  \/ FetchFail
  \/ FetchEmpty
  \/ FetchItems
  \/ FetchOutage
  \/ MainCheck
  \/ MainCsv
  \/ MainSaveDb
  \/ DbStep("main")
  \/ MainAdvance

Spec == Init /\ [][Next]_vars

\* save_batch_to_db called directly, batch after batch, by a single caller.
PersistCall ==
  /\ pc = "idle"
  /\ dbpc["main"] \in {"idle", "closed", "failed"}
  /\ \E items \in Batches : DbOpen("main", items)
  /\ UNCHANGED <<driverVars, fetchVars, csvVars, reqs>>

NextPersist ==
  \/ PersistCall
  \/ DbStep("main")

SpecPersist == Init /\ [][NextPersist]_vars

\* fetch_movies_batch called directly with any start page and batch size.
CollectCall ==
  /\ pc = "idle"
  /\ fpc \in {"idle", "returned"}
  /\ \E start \in 1..MaxStart, size \in 1..MaxSize : FetchCall(start, size)
  /\ emptySeen' = FALSE
  /\ UNCHANGED <<driverVars, csvVars, storeVars, dbVars, reqs>>

NextCollect ==
  \/ CollectCall
  \/ FetchFail
  \/ FetchEmpty
  \/ FetchItems

SpecCollect == Init /\ [][NextCollect]_vars

\* One run of main to its end, with a remote API that answers every request:
\* the first MaxVaried requests in any way it can, every later one with the
\* same two items.  Each GET returns within its timeout (timeout=10) or
\* raises, the sleeps between attempts are finite, and the process keeps
\* running, so a step that can be taken is eventually taken.
LiveStart == run = 0 /\ MainStart

LiveFail ==
  /\ reqs < MaxVaried
  /\ reqs' = reqs + 1
  /\ GetFail

LiveEmpty ==
  /\ reqs < MaxVaried
  /\ reqs' = reqs + 1
  /\ GetEmpty

LiveItems ==
  /\ reqs < MaxVaried
  /\ reqs' = reqs + 1
  /\ \E results \in PageBodies : GetItems(results)

LivePlain ==
  /\ reqs >= MaxVaried
  /\ GetItems(<<ItemA, ItemB>>)
  /\ UNCHANGED reqs

NextLive ==
  \/ LiveStart
  \/ MainLoop
  \/ LiveFail
  \/ LiveEmpty
  \/ LiveItems
  \/ LivePlain
  \/ MainCheck
  \/ MainCsv
  \/ MainSaveDb
  \/ DbStep("main")
  \/ MainAdvance

SpecLive == Init /\ [][NextLive]_vars /\ WF_vars(NextLive)

\* main with its two parameters tuned: MAX_PAGES and PAGES_PER_BATCH of lines
\* 211-212 as they stand, or set to other values.
Tunings == {<<MAX_PAGES, PAGES_PER_BATCH>>} \cup ((1..MaxCeiling) \X (1..MaxBatchPages))

InitTuned ==
  /\ InitCommon
  /\ \E t \in Tunings : max_pages = t[1] /\ pages_per_batch = t[2]

SpecTuned == InitTuned /\ [][NextLive]_vars

\* The exhaustion scenario: main with the constants of the source, a remote
\* API whose pages 1..PAGES_PER_BATCH each answer 200 with ItemsPerPage items
\* of pairwise different ids and whose next page answers 200 with empty
\* results, and a store that is up.  The last item of a page carries either
\* two different genre ids or the same genre id twice.
BodyKinds == {"plain", "repeated"}

ScenarioBody(p, kind) ==
  [k \in 1..ItemsPerPage |->
     Item((p - 1) * ItemsPerPage + k, "A", ItemA.release_date,
          IF kind = "repeated" /\ k = ItemsPerPage THEN <<1, 1>> ELSE <<1, 2>>)]

ScenarioStart == run = 0 /\ MainStart

ScenarioItems ==
  /\ fpage <= PAGES_PER_BATCH
  /\ \E kind \in BodyKinds : GetItems(ScenarioBody(fpage, kind))
  /\ UNCHANGED reqs

ScenarioEmpty ==
  /\ fpage = PAGES_PER_BATCH + 1
  /\ GetEmpty
  /\ UNCHANGED reqs

NextScenario ==
  \/ ScenarioStart
  \/ MainLoop
  \/ ScenarioItems
  \/ ScenarioEmpty
  \/ MainCheck
  \/ MainCsv
  \/ MainSaveDb
  \/ DbLoadGenres("main")
  \/ DbItem("main")
  \/ DbAutoflushError("main")
  \/ DbCommit("main")
  \/ DbCommitError("main")
  \/ DbClose("main")
  \/ MainAdvance

SpecScenario == Init /\ [][NextScenario]_vars

\* Two invocations of save_batch_to_db at the same time (main started by hand
\* while the scheduler's job runs, or two scheduler processes: max_instances=1
\* holds within one scheduler only), each with its own session and
\* transaction on the same database.  A transaction reads committed rows and
\* its own; an INSERT whose primary key equals that of a row another open
\* transaction has inserted waits until that transaction ends.
OtherWriter(w) == CHOOSE v \in Writers : v # w

\* The statement writer w is about to run flushes its pending objects.
AtFlush(w) ==
  /\ dbpc[w] = "items"
  /\ sess[w].idx <= Len(sess[w].items) => ~IdentityHit(sess[w])

Pending(s) == s.new_genres # {} \/ s.new_movies # <<>>

\* A flush runs one INSERT per row: the new Genre objects in the order they
\* were added, then the new Movie objects, then the movies_genres rows of
\* each movie's genres list in list order.  NextInsert is the row of the next
\* INSERT of the flush under way.
NextInsert(s) ==
  IF s.new_genres # {}
    THEN LET i == CHOOSE i \in 1..Len(s.staged) :
                    /\ GenreRow(s.staged[i]) \in s.new_genres
                    /\ \A j \in 1..(i - 1) : GenreRow(s.staged[j]) \notin s.new_genres
         IN  [tbl |-> "genres", key |-> <<s.staged[i]>>, row |-> GenreRow(s.staged[i])]
  ELSE IF \E i \in 1..Len(s.new_movies) : s.new_movies[i].row \notin s.tx_movies
    THEN LET i == CHOOSE i \in 1..Len(s.new_movies) :
                    /\ s.new_movies[i].row \notin s.tx_movies
                    /\ \A j \in 1..(i - 1) : s.new_movies[j].row \in s.tx_movies
         IN  [tbl |-> "movies", key |-> <<s.new_movies[i].row.id>>, row |-> s.new_movies[i].row]
  ELSE LET i == CHOOSE i \in 1..Len(s.new_movies) :
                    /\ s.new_movies[i].assoc # <<>>
                    /\ \A j \in 1..(i - 1) : s.new_movies[j].assoc = <<>>
           r == AssocRow(s.new_movies[i].row.id, Head(s.new_movies[i].assoc))
       IN  [tbl |-> "movies_genres", key |-> <<r.movie_id, r.genre_id>>, row |-> r]

\* Primary keys of the rows of a table among the given rows.
KeysIn(tbl, gs, ms, as) ==
  IF tbl = "genres" THEN { <<r.genre_id>> : r \in gs }
  ELSE IF tbl = "movies" THEN { <<r.id>> : r \in ms }
  ELSE { <<r.movie_id, r.genre_id>> : r \in as }

\* The next INSERT of w is rejected: its key is committed or in w's own
\* transaction.
Rejected(w) ==
  LET s == sess[w]
      n == NextInsert(s)
  IN  n.key \in KeysIn(n.tbl, VisGenres(s), VisMovies(s), VisAssoc(s))

\* The next INSERT of w waits: its key is that of a row the other open
\* transaction has inserted.
Waits(w) ==
  LET o == sess[OtherWriter(w)]
      n == NextInsert(sess[w])
  IN  n.key \in KeysIn(n.tbl, o.tx_genres, o.tx_movies, o.tx_assoc)

\* Everything pending has been inserted: the flush is over, the new Movie
\* objects are persistent and in the identity map.
FlushDone(s) ==
  /\ s.new_genres = {}
  /\ \A i \in 1..Len(s.new_movies) :
        s.new_movies[i].row \in s.tx_movies /\ s.new_movies[i].assoc = <<>>

AfterInsert(s) ==
  LET n == NextInsert(s)
      t == IF n.tbl = "genres"
             THEN [s EXCEPT !.tx_genres = @ \cup {n.row}, !.new_genres = @ \ {n.row}]
           ELSE IF n.tbl = "movies"
             THEN [s EXCEPT !.tx_movies = @ \cup {n.row}]
           ELSE [s EXCEPT !.tx_assoc = @ \cup {n.row},
                          !.new_movies = [i \in 1..Len(s.new_movies) |->
                             IF s.new_movies[i].row.id = n.row.movie_id
                                  /\ s.new_movies[i].assoc # <<>>
                               THEN [s.new_movies[i] EXCEPT !.assoc = Tail(@)]
                               ELSE s.new_movies[i]]]
      ids == { t.new_movies[i].row.id : i \in 1..Len(t.new_movies) }
  IN  IF FlushDone(t)
        THEN [t EXCEPT !.identity = @ \cup ids, !.wrote = @ \cup ids, !.new_movies = <<>>]
        ELSE t

ConcCall(w) ==
  /\ pc = "idle"
  /\ dbpc[w] = "idle"
  /\ \E items \in Batches : DbOpen(w, items)
  /\ UNCHANGED <<driverVars, fetchVars, csvVars, reqs>>

\* One INSERT of the flush of a get or of commit is accepted.
ConcInsert(w) ==
  /\ AtFlush(w)
  /\ Pending(sess[w])
  /\ ~Rejected(w)
  /\ ~Waits(w)
  /\ sess' = [sess EXCEPT ![w] = AfterInsert(sess[w])]
  /\ UNCHANGED <<dbpc, storeVars, last, reqs>>
  /\ UNCHANGED <<driverVars, fetchVars, csvVars>>

\* One INSERT of the flush raises IntegrityError.
ConcInsertError(w) ==
  /\ AtFlush(w)
  /\ Pending(sess[w])
  /\ Rejected(w)
  /\ DbRaise(w, "constraint")

\* The get of one item once nothing is left to flush: SELECT, then continue or
\* the staging of the item.
ConcItem(w) ==
  /\ AtFlush(w) => ~Pending(sess[w])
  /\ DbItem(w)

\* Mutant of ConcCommit: the flush of commit neither waits nor checks a key.
ConcCommit_unchecked(w) ==
  /\ dbpc[w] = "items"
  /\ sess[w].idx > Len(sess[w].items)
  /\ LET s == Flushed(sess[w])
     IN  /\ movies_tbl' = movies_tbl \cup s.tx_movies
         /\ genres_tbl' = genres_tbl \cup s.tx_genres
         /\ assoc_tbl' = assoc_tbl \cup s.tx_assoc
         /\ sess' = [sess EXCEPT ![w] = [s EXCEPT !.tx_movies = {}, !.tx_genres = {},
                                                  !.tx_assoc = {}]]
  /\ dbpc' = [dbpc EXCEPT ![w] = "committed"]
  /\ UNCHANGED <<last, reqs>>
  /\ UNCHANGED <<driverVars, fetchVars, csvVars>>

\* COMMIT, once the flush of session.commit() has inserted every pending row.
ConcCommit(w) ==
  /\ ~Pending(sess[w])
  /\ DbCommit(w)

\* Each transaction waits for a row the other has inserted: the database
\* detects the deadlock and aborts one of them with an error.
DbDeadlock(w) ==
  /\ AtFlush(w) /\ Pending(sess[w]) /\ Waits(w)
  /\ AtFlush(OtherWriter(w)) /\ Pending(sess[OtherWriter(w)]) /\ Waits(OtherWriter(w))
  /\ DbRaise(w, "deadlock")

ConcStep(w) ==
  \/ ConcCall(w)
  \/ DbLoadGenres(w)
  \/ ConcInsert(w)
  \/ ConcInsertError(w)
  \/ ConcItem(w)
  \/ ConcCommit(w)
  \/ DbDeadlock(w)
  \/ DbClose(w)

NextConcurrent == \E w \in Writers : ConcStep(w)

SpecConcurrent == Init /\ [][NextConcurrent]_vars

\* ================================================================== claims
\* --- helpers over the request log of one collector call
RECURSIVE OkResults(_)
OkResults(log) ==
  IF Len(log) = 0 THEN <<>>
  ELSE (IF Head(log).outcome = "ok" THEN Head(log).results ELSE <<>>) \o OkResults(Tail(log))

\* What page p delivered in this call: the results of its successful
\* response, nothing when no request for it succeeded.
PageDelivered(p) ==
  IF \E i \in 1..Len(flog) : flog[i].page = p /\ flog[i].outcome = "ok"
    THEN flog[CHOOSE i \in 1..Len(flog) : flog[i].page = p /\ flog[i].outcome = "ok"].results
    ELSE <<>>

RECURSIVE DeliveredRange(_, _)
DeliveredRange(a, b) ==
  IF a > b THEN <<>> ELSE PageDelivered(a) \o DeliveredRange(a + 1, b)

Requests(p) == { i \in 1..Len(flog) : flog[i].page = p }
Failures(p) == { i \in 1..Len(flog) : flog[i].page = p /\ flog[i].outcome = "fail" }
Abandoned(p) == Cardinality(Failures(p)) = RETRIES

EndedByEmpty == fpc = "returned" /\ flog # <<>> /\ flog[Len(flog)].outcome = "empty"

\* C3: when the collector returns because page k answered with empty results,
\* it returns exactly what pages start..k-1 delivered, in page order, nothing
\* of page k or later, every page before k delivered at most once, and no
\* page greater than k was requested.
C3_CollectorTermination ==
  EndedByEmpty =>
    LET k == flog[Len(flog)].page
    IN  /\ fstart <= k /\ k < fstart + fsize
        /\ movies = DeliveredRange(fstart, k - 1)
        /\ \A i \in 1..Len(flog) : flog[i].page <= k
        /\ \A i \in 1..Len(flog) : flog[i].outcome = "ok" => flog[i].page < k
        /\ \A p \in fstart..k :
              Cardinality({ i \in Requests(p) : flog[i].outcome = "ok" }) <= 1

\* The empty page is the second of a range of three and the first gave items.
C3_Witness ==
  /\ EndedByEmpty
  /\ fsize = 3
  /\ flog[Len(flog)].page = fstart + 1
  /\ movies # <<>>
  /\ movies = PageDelivered(fstart)

\* C6: within one collector call a page is requested at most 3 times, a
\* repeated request follows a failed request of the same page, and a page
\* left behind (after success or after its third failure) is never requested
\* again.
C6_RetryBound ==
  /\ \A p \in fstart..(fstart + fsize - 1) : Cardinality(Requests(p)) <= 3
  /\ \A i \in 2..Len(flog) :
        /\ flog[i].page >= flog[i - 1].page
        /\ flog[i].page = flog[i - 1].page => flog[i - 1].outcome = "fail"
  /\ \A p \in fstart..(fstart + fsize - 1) :
        Abandoned(p) => /\ flog[Len(flog)].page >= p
                        /\ (fpc = "running" => fpage > p)

\* A page failed three times and a later page was then requested.
C6_Witness ==
  /\ Abandoned(fstart)
  /\ \E i \in 1..Len(flog) : flog[i].page = fstart + 1 /\ flog[i].outcome = "fail"
  /\ \E i \in 1..Len(flog) : flog[i].page = fstart + 1 /\ flog[i].outcome = "ok"

\* C7: a page that failed on every attempt adds nothing to movies, the
\* collector goes on with the next page of the range (or returns normally
\* when the page was the last), and the returned list holds the results of
\* every successful response of the call.
C7_AbandonedContained ==
  /\ movies = OkResults(flog)
  /\ \A p \in fstart..(fstart + fsize - 1) :
        Abandoned(p) => PageDelivered(p) = <<>>
  /\ (flog # <<>> /\ Abandoned(flog[Len(flog)].page)) =>
        LET p == flog[Len(flog)].page
        IN  IF p + 1 < fstart + fsize
              THEN fpc = "running" /\ fpage = p + 1 /\ retries = RETRIES
              ELSE fpc = "returned"

\* A page in the middle was abandoned; the pages before and after it gave
\* items and all of them are returned.
C7_Witness ==
  /\ fpc = "returned"
  /\ fsize = 3
  /\ Abandoned(fstart + 1)
  /\ PageDelivered(fstart) # <<>>
  /\ PageDelivered(fstart + 2) # <<>>
  /\ movies = PageDelivered(fstart) \o PageDelivered(fstart + 2)

\* --- helpers over the store
AssocOf(tbl, mid) == { a \in tbl : a.movie_id = mid }
MainSess == sess["main"]
CallEnded == dbpc["main"] \in {"closed", "failed"}

\* C1: a save_batch_to_db call that repeats the batch of the call completed
\* just before it leaves the committed store as that call left it: after a
\* committed first call the second one stages and flushes nothing at any
\* point; after a first call refused by a constraint the second one cannot
\* commit either.
C1_PersistIdempotent ==
  (dbpc["main"] # "idle" /\ MainSess.prev.repeats) =>
    /\ MainSess.prev.outcome \in {"ok", "constraint"} => Store = MainSess.before
    /\ MainSess.prev.outcome = "ok" =>
          /\ MainSess.new_movies = <<>>
          /\ MainSess.new_genres = {}
          /\ MainSess.wrote = {}
          /\ MainSess.tx_movies = {} /\ MainSess.tx_genres = {} /\ MainSess.tx_assoc = {}
          /\ dbpc["main"] = "failed" => last.outcome = "store"
    /\ MainSess.prev.outcome = "constraint" => dbpc["main"] \notin {"committed", "closed"}

\* The second call of a two-item batch with genres has committed and closed.
C1_Witness ==
  /\ dbpc["main"] = "closed"
  /\ MainSess.prev.repeats
  /\ MainSess.prev.outcome = "ok"
  /\ MainSess.items = <<ItemA, ItemB>>
  /\ Cardinality(movies_tbl) = 2
  /\ Cardinality(assoc_tbl) = 3

\* C2 (as claimed): after a 200 response with empty results no further page
\* is requested in the same run.
C2_ExhaustionStopsRun ==
  [][(emptySeen /\ run' = run) => Len(flog') <= Len(flog)]_vars

\* C4: a save_batch_to_db call that fails leaves the committed store exactly
\* as it was when the call began, and so does a call that has not committed
\* yet.
C4_AtomicPersist ==
  \A w \in Writers :
    dbpc[w] \in {"opened", "items", "failed"} => Store = sess[w].before

\* The call failed after an autoflush had already written rows of the batch
\* into its transaction.
C4_Witness ==
  /\ dbpc["main"] = "failed"
  /\ MainSess.wrote # {}
  /\ MainSess.idx > 1
  /\ Store = MainSess.before

\* C5 (as claimed): a call that meets no store failure and whose batch holds
\* a new item with a repeated genre id succeeds, and the committed
\* associations of that movie are one pair per distinct genre id.
C5_RepeatedGenreIds ==
  (CallEnded /\ last.outcome # "store") =>
    \A i \in 1..Len(MainSess.items) :
      LET m == MainSess.items[i]
      IN  ( /\ ~NoRepeat(m.genre_ids)
            /\ \A r \in MainSess.before.movies : r.id # m.id
            /\ \A j \in 1..(i - 1) : MainSess.items[j].id # m.id )
          => /\ dbpc["main"] = "closed"
             /\ AssocOf(assoc_tbl, m.id) = { AssocRow(m.id, g) : g \in SeqToSet(m.genre_ids) }

\* C8: when save_batch_to_db ends inside a run without having committed (it
\* failed), main is left by the exception (not through the end of its loop), and for the rest of that run
\* nothing is fetched, nothing is appended to the mirror, no persist is
\* started and the store does not change.
C8_PersistFailureFatal ==
  [][ /\ ( /\ dbpc["main"] \in {"opened", "items"}
            /\ dbpc'["main"] \notin {"opened", "items", "committed"} )
          => (pc' = "crashed" /\ halt' = "none" /\ dbpc'["main"] = "failed")
      /\ (pc = "crashed" /\ run' = run) =>
            /\ pc' = "crashed"
            /\ UNCHANGED <<fetchVars, csvVars, storeVars, sess, dbpc, page, batch, halt>>
    ]_vars

\* The run stopped on a persistence failure although pages remained below
\* the ceiling, and the mirror already holds the batch.
C8_Witness ==
  /\ pc = "crashed"
  /\ dbpc["main"] = "failed"
  /\ page + pages_per_batch <= max_pages
  /\ Len(csv_lines) = 1 + Len(batch)
  /\ batch # <<>>

\* C9: a committed movie row stays as it is, with the same association
\* pairs, and no second row takes its id; an item whose id is already
\* committed stages no movie, no genre and no cache entry.
C9_ExistingImmutable ==
  [][ /\ \A r \in movies_tbl :
            /\ r \in movies_tbl'
            /\ \A q \in movies_tbl' : q.id = r.id => q = r
            /\ AssocOf(assoc_tbl', r.id) = AssocOf(assoc_tbl, r.id)
      /\ \A w \in Writers :
            ( /\ dbpc[w] = "items"
              /\ sess[w].idx <= Len(sess[w].items)
              /\ sess'[w].idx = sess[w].idx + 1
              /\ \E r \in movies_tbl : r.id = sess[w].items[sess[w].idx].id )
            => /\ sess'[w].new_movies = <<>> \/ sess'[w].new_movies = sess[w].new_movies
               /\ sess'[w].new_genres \subseteq sess[w].new_genres
               /\ sess'[w].genre_cache = sess[w].genre_cache
               /\ sess'[w].tx_assoc \subseteq sess[w].tx_assoc
                      \cup SeqToSet(AssocInserts(sess[w].new_movies))
    ]_vars

\* Movie 1 was committed from ItemA; a later call carrying ItemA2 (same id,
\* other title and genre) has completed and the row is still ItemA's.
C9_Witness ==
  /\ dbpc["main"] = "closed"
  /\ \E i \in 1..Len(MainSess.items) : MainSess.items[i] = ItemA2
  /\ MovieRow(ItemA) \in MainSess.before.movies
  /\ MovieRow(ItemA) \in movies_tbl
  /\ AssocOf(assoc_tbl, 1) = { AssocRow(1, 1) }

\* C10: the mirror file, absent before the first append, holds exactly one
\* header line after any number of appends, and it is the first line.
C10_HeaderOnce ==
  /\ ~csv_exists => csv_lines = <<>>
  /\ csv_exists =>
        /\ Len(csv_lines) >= 1
        /\ csv_lines[1] = CsvHeader
        /\ \A i \in 2..Len(csv_lines) : csv_lines[i] # CsvHeader

\* A batch was appended in a second run to a file written by the first run.
C10_Witness ==
  /\ run = 2
  /\ pc = "db"
  /\ Len(csv_lines) > 1 + Len(batch)

\* --- helpers over the mirror
DataLines == { i \in 1..Len(csv_lines) : csv_lines[i] # CsvHeader }
RowsWithId(lines, id) == { i \in 1..Len(lines) : lines[i] # CsvHeader /\ lines[i][1] = Str(id) }
IdsOf(ms) == { ms[i].id : i \in 1..Len(ms) }

\* C11: a mirror append keeps every earlier line where it was and adds, after
\* the header of a new file, one row per item of the batch in batch order;
\* and a persist call whose items are all stored already (a re-run over the
\* same pages) leaves the store as it was, while the mirror has grown.
C11_MirrorAppendOnly ==
  [][ /\ csv_lines' # csv_lines =>
            LET old == Len(csv_lines)
                hdr == IF old = 0 THEN 1 ELSE 0
            IN  /\ Len(csv_lines') = old + hdr + Len(batch)
                /\ \A i \in 1..old : csv_lines'[i] = csv_lines[i]
                /\ \A i \in 1..Len(batch) :
                      /\ csv_lines'[old + hdr + i] = CsvRow(batch[i])
                      /\ csv_lines'[old + hdr + i][8] = JoinComma(batch[i].genre_ids)
      /\ ( /\ dbpc'["main"] \in {"committed", "closed"}
            /\ IdsOf(sess'["main"].items) \subseteq { r.id : r \in sess'["main"].before.movies } )
          => /\ movies_tbl' = sess'["main"].before.movies
             /\ assoc_tbl' = sess'["main"].before.assoc
             /\ genres_tbl' = sess'["main"].before.genres
    ]_vars

\* Second run over the same page: the store is what the first run left, and
\* the mirror holds every item of the batch twice.
C11_Witness ==
  /\ run = 2
  /\ pc = "db"
  /\ dbpc["main"] = "closed"
  /\ batch = <<ItemA, ItemB>>
  /\ Store = MainSess.before
  /\ Cardinality(movies_tbl) = 2
  /\ Len(csv_lines) = 1 + 2 * Len(batch)
  /\ \A i \in 1..Len(batch) : Cardinality(RowsWithId(csv_lines, batch[i].id)) = 2

\* C19: every movie id committed in the store is the id field of some data
\* row of the mirror (main writes the batch to the file before it persists it).
C19_StoreCoveredByMirror ==
  \A r \in movies_tbl : RowsWithId(csv_lines, r.id) # {}

\* A run ended by a store failure after an earlier run had committed: the
\* mirror covers the store, and holds a row whose id has no record in the store.
C19_Witness ==
  /\ pc = "crashed"
  /\ run = 2
  /\ movies_tbl # {}
  /\ \A r \in movies_tbl : RowsWithId(csv_lines, r.id) # {}
  /\ \E i \in DataLines : \A r \in movies_tbl : csv_lines[i][1] # Str(r.id)

\* C14: the run halts through EXHAUSTED only when some page of the batch just
\* collected answered successfully with empty results (a batch whose pages
\* were all abandoned does not end the run).
C14_ExhaustedOnlyOnEndOfData ==
  [][ (halt' = "EXHAUSTED" /\ halt # "EXHAUSTED")
        => \E i \in 1..Len(flog) : flog[i].outcome = "empty" ]_vars

\* C17: whenever no persist call of main is in progress (before the first
\* batch, between batches, after a failure, after the run) no session is open.
C17_SessionClosedOnEveryPath ==
  dbpc["main"] \in {"idle", "closed", "failed"} => ~sess["main"].open

\* C18: whatever the ceiling and the batch size main is tuned to, no request
\* of a run carries a page number above the ceiling.
C18_CeilingRespected ==
  \A i \in 1..Len(flog) : flog[i].page <= max_pages

\* The last n lines of the mirror.
CsvTail(n) == IF n > Len(csv_lines) THEN <<>> ELSE SubSeq(csv_lines, Len(csv_lines) - n + 1, Len(csv_lines))

\* C13: within a run, the mirror is appended only once the collector has
\* returned a non-empty batch; persist of a batch is entered only for a
\* non-empty batch whose rows already end the mirror; the cursor moves only
\* by pages_per_batch and only after persist of the batch committed and
\* returned; and the run halts through CEILING_REACHED exactly when the loop
\* test finds the cursor above the ceiling.
C13_DriverStepOrder ==
  [][ /\ csv_lines' # csv_lines =>
            /\ fpc = "idle" /\ batch = movies /\ batch # <<>>
            /\ dbpc["main"] = "idle"
      /\ (dbpc["main"] = "idle" /\ dbpc'["main"] = "opened") =>
            /\ batch # <<>>
            /\ sess'["main"].items = batch
            /\ CsvTail(Len(batch)) = CsvRows(batch)
      /\ (page' # page /\ run' = run) =>
            /\ page' = page + pages_per_batch
            /\ dbpc["main"] = "closed"
            /\ IdsOf(batch) \subseteq { r.id : r \in movies_tbl }
      /\ (pc = "loop" /\ pc' # "loop") =>
            IF page > max_pages
              THEN pc' = "done" /\ halt' = "CEILING_REACHED" /\ page > 1
              ELSE pc' = "fetch" /\ halt' = "none"
      /\ (halt' = "CEILING_REACHED" /\ halt # "CEILING_REACHED") =>
            (pc = "loop" /\ page > max_pages)
    ]_vars

\* A run that went through every batch up to the ceiling and ended there.
C13_Witness ==
  /\ pc = "done"
  /\ halt = "CEILING_REACHED"
  /\ page = MAX_PAGES + 1
  /\ page > max_pages
  /\ movies_tbl # {}
  /\ CsvTail(Len(batch)) = CsvRows(batch)

\* The genre INSERTs of a flush of session s are accepted by the primary key
\* of genres.
GenreFlushOk(s) ==
  /\ \A g \in s.new_genres : \A r \in VisGenres(s) : r.genre_id # g.genre_id
  /\ \A g, h \in s.new_genres : g.genre_id = h.genre_id => g = h

\* C15: with one writer calling persist again and again, a Genre is created
\* for id g only when no genre row with id g is committed and none was
\* created earlier in the same call; so no flush is rejected by the primary
\* key of genres, the committed genre rows have pairwise different ids, and a
\* committed genre row is never changed or removed.
C15_GenreCreatedOnce ==
  [][ LET s == sess["main"]
          t == sess'["main"]
      IN  /\ (dbpc["main"] = "items" /\ dbpc'["main"] = "items") =>
                \A i \in (Len(s.staged) + 1)..Len(t.staged) :
                   /\ \A r \in genres_tbl : r.genre_id # t.staged[i]
                   /\ \A j \in 1..(i - 1) : t.staged[j] # t.staged[i]
          /\ dbpc'["main"] = "items" => GenreFlushOk(t)
          /\ \A g, h \in genres_tbl' : g.genre_id = h.genre_id => g = h
          /\ genres_tbl \subseteq genres_tbl'
    ]_vars

\* A call that created the genre 2 while genre 1 was stored by an earlier
\* call has committed: both are stored, each once.
C15_Witness ==
  /\ dbpc["main"] = "closed"
  /\ MainSess.before.genres = {GenreRow(1)}
  /\ MainSess.staged = <<2>>
  /\ genres_tbl = {GenreRow(1), GenreRow(2)}
  /\ \E i \in 1..Len(MainSess.items) : 1 \in SeqToSet(MainSess.items[i].genre_ids)

Running == pc \in {"loop", "fetch", "csv", "db"}
Ended == \/ pc = "done" /\ halt \in {"EXHAUSTED", "CEILING_REACHED"}
         \/ pc = "crashed" /\ dbpc["main"] = "failed"

\* ceil(max_pages / pages_per_batch)
MaxBatches == (max_pages + pages_per_batch - 1) \div pages_per_batch

\* C20: whatever the remote API answers, every run of main ends, in done
\* (EXHAUSTED or CEILING_REACHED) or with the exception of a failed persist;
\* within a run the cursor only moves up, a batch is begun at most
\* ceil(max_pages / pages_per_batch) times, every request is for a page of
\* the current batch and no page is requested more than 3 times.
C20_RunTerminates ==
  /\ [][
         /\ (page' # page /\ run' = run) => page' > page
         /\ (pc = "db" /\ pc' = "loop") => page' > page
         /\ (pc = "loop" /\ pc' = "fetch") =>
                /\ (page - 1) % pages_per_batch = 0
                /\ ((page - 1) \div pages_per_batch) + 1 <= MaxBatches
         /\ \A i \in 1..Len(flog') :
                /\ page' <= flog'[i].page /\ flog'[i].page < page' + pages_per_batch
                /\ Cardinality({ j \in 1..Len(flog') : flog'[j].page = flog'[i].page }) <= RETRIES
      ]_vars
  /\ (Running ~> Ended)

\* A run that used every batch the ceiling allows and ended.
C20_Witness ==
  /\ pc = "done"
  /\ halt = "CEILING_REACHED"
  /\ (page - 1) \div pages_per_batch = MaxBatches
  /\ MaxBatches = 20

\* C12: in the exhaustion scenario the run, once it has ended, has ended in
\* done through EXHAUSTED after one batch (cursor moved once), with
\* PAGES_PER_BATCH * ItemsPerPage movies committed, and the last page
\* requested is the empty page PAGES_PER_BATCH + 1.
C12_ExhaustionScenario ==
  pc \in {"done", "crashed"} =>
    /\ pc = "done"
    /\ halt = "EXHAUSTED"
    /\ page = 1 + PAGES_PER_BATCH
    /\ fpage = PAGES_PER_BATCH + 1
    /\ emptySeen
    /\ Cardinality(movies_tbl) = PAGES_PER_BATCH * ItemsPerPage
    /\ { r.id : r \in movies_tbl } = 1..(PAGES_PER_BATCH * ItemsPerPage)

\* --- helpers over two concurrent persist calls
StagedIds == UNION { SeqToSet(sess[w].staged) : w \in Writers }
BothStaged(g) == \A w \in Writers : g \in SeqToSet(sess[w].staged)
HasCommitted(w) == dbpc[w] \in {"committed", "closed"}
HasEnded(w) == dbpc[w] \in {"closed", "failed"}

\* C16: when two interleaved persist calls have both created a Genre for the
\* same id, they never both commit, and once both have ended at least one of
\* them has failed; the committed genre rows always have pairwise different
\* ids.
C16_ConcurrentGenreInsert ==
  /\ \A g \in StagedIds :
        BothStaged(g) =>
          /\ ~(\A w \in Writers : HasCommitted(w))
          /\ (\A w \in Writers : HasEnded(w)) => \E w \in Writers : dbpc[w] = "failed"
  /\ \A g, h \in genres_tbl : g.genre_id = h.genre_id => g = h

\* Both calls created a Genre for id 1, one committed it and the other was
\* rejected by the primary key of genres.
C16_Witness ==
  /\ BothStaged(1)
  /\ 1 \notin { r.genre_id : r \in sess["main"].before.genres }
  /\ \E w \in Writers :
        /\ dbpc[w] = "closed"
        /\ dbpc[OtherWriter(w)] = "failed"
        /\ NoRepeat(sess[OtherWriter(w)].items[1].genre_ids)
        /\ Len(sess[OtherWriter(w)].items) = 1
        /\ sess[OtherWriter(w)].items[1].id \notin IdsOf(sess[w].items)
  /\ GenreRow(1) \in genres_tbl

====
